---- MODULE Spec2Model ----
(***************************************************************************)
(* State-machine model of src/src/tepollsocket.cpp (TEpollSocket): the     *)
(* process-wide buffer sizes and object counter, the sockets created by    *)
(* accept()/create(), the receive loop, the send loop over the head of    *)
(* the send queue, the enqueue operations, close(), the descriptor setter *)
(* and the destructor.                                                     *)
(*                                                                         *)
(* Collaborators whose code is not in this file (TSendBuffer,              *)
(* TAccessLogger, the receive buffer of the subclass, TEpoll) are modelled *)
(* from their contract in spec.md, sections 3 and 6.                       *)
(***************************************************************************)
EXTENDS Integers, Sequences, FiniteSets

VARIABLES
    sendBufSize,    \* static int sendBufSize
    recvBufSize,    \* static int recvBufSize
    objectCounter,  \* static QAtomicInt objectCounter (signed 32 bit)
    socks,          \* the TEpollSocket objects constructed so far; of each,
                    \* closes counts the OS closes of its descriptor (up to
                    \* MaxCloses) and alive tells the destructor has not run
    enq,            \* history: per socket, the buffers enqueued, in enqueue order
    wire,           \* history: per socket, the bytes the OS write accepted
    tally,          \* history: per socket, the send() calls on its head (counted
                    \* up to MaxLen) and the OS writes that accepted bytes of it
    accessLog,      \* history: the access-log records written, in order
    deleted,        \* history: the send buffers deleted, in order
    discoveries,    \* history: number of times the getsockopt queries were issued
    last,           \* history: the operation that ran last, with its result
    thr,            \* threads running the constructor step by step
    made,           \* identifiers produced by those threads
    app,            \* execution contexts running "sendBuf << buffer" step by step
    past            \* history: the object counter when the behaviour starts and
                    \* the identifiers of the connections constructed before it

vars == <<sendBufSize, recvBufSize, objectCounter, socks, enq,
          wire, tally, accessLog, deleted, discoveries, last, thr, made, app,
          past>>

----------------------------------------------------------------------------
(* Bounds of the model *)

MaxSocks == 2       \* sockets constructed in one behaviour
MaxEnq == 2         \* buffers enqueued in one behaviour, over all sockets
MaxLen == 2         \* bytes in one enqueued buffer
MaxOsBuf == 1       \* sizes the getsockopt query may report are 0..MaxOsBuf
MaxLogStart == 1    \* response-byte count of a logger handed to enqueue
MaxRecv == 2        \* bytes the sockets commit to their receive buffers, in total
MaxTime == 0        \* the coarse clock reads 0..MaxTime
MaxCtors == 5       \* constructor runs of the threads, in total
NThreads == 2       \* threads running the constructor concurrently
NAppenders == 2     \* execution contexts appending to a send queue concurrently
MaxCloses == 2      \* OS closes counted per socket
MaxLifeSocks == 1   \* sockets constructed in a behaviour that follows them to
                    \* their destruction

----------------------------------------------------------------------------
(* Program constants *)

BUF_SIZE == 128 * 1024

EAGAIN == 11
ECONNRESET == 104
EPIPE == 32             \* stands for any errno of the default: branches

INT_MAX == 2147483647   \* largest value of the int inside QAtomicInt

Min(a, b) == IF a < b THEN a ELSE b

\* The byte arrays handed to enqueue.  The code never looks at a byte's value,
\* so the k-th buffer of a socket carries bytes no other buffer of it carries:
\* any byte written twice, skipped or out of order then shows on the wire.
Payload(k, n) == [i \in 1..n |-> (MaxLen + 1) * k + i]
Payloads(k) == {Payload(k, n) : n \in 0..MaxLen}

----------------------------------------------------------------------------
(* TSendBuffer and its TAccessLogger: contract of spec.md sections 3 and 6 *)

NewSendBuffer(id, data, bytes0) ==
    [id |-> id, data |-> data, pos |-> 0, bytes |-> bytes0]

\* read_window(max_bytes): the length of the window, clamped to what remains
getData(buf, size) == Min(size, Len(buf.data) - buf.pos)

\* advance(bytes_sent)
seekData(buf, len) == [buf EXCEPT !.pos = @ + len]

\* at_end()
atEnd(buf) == buf.pos >= Len(buf.data)

responseBytes(buf) == buf.bytes

setResponseBytes(buf, n) == [buf EXCEPT !.bytes = n]

\* the bytes of the window that the OS accepted, when it accepted len of them
Window(buf, len) == SubSeq(buf.data, buf.pos + 1, buf.pos + len)

----------------------------------------------------------------------------
(* The OS *)

\* ::send(sd, data, len, 0) with len > 0: the result and the errno after it
OsSend(len) ==
    {[len |-> n, err |-> 0] : n \in 0..len}
    \cup {[len |-> -1, err |-> e] : e \in {EAGAIN, ECONNRESET, EPIPE}}

\* ::recv(sd, buf, cap, 0) when the receive buffer of the model has room left
OsRecv(cap, room) ==
    {[len |-> n, err |-> 0] : n \in 0..Min(cap, room)}
    \cup {[len |-> -1, err |-> e] : e \in {EAGAIN, ECONNRESET, EPIPE}}

\* getsockopt(SO_SNDBUF / SO_RCVBUF): res < 0 leaves the value untouched
OsSockOpt ==
    {[res |-> -1, val |-> 0]} \cup {[res |-> 0, val |-> v] : v \in 0..MaxOsBuf}

\* tf_accept4: -1 with an errno, or a descriptor no socket holds (0 when the
\* process has closed its standard input)
OsAccept(open) ==
    {[fd |-> -1, err |-> e] : e \in {EAGAIN, EPIPE}}
    \cup {[fd |-> d, err |-> 0] : d \in {0, open + 1}}

\* the descriptors handed to create()
Descriptors(open) == {-1, 0, open + 1}
Times == 0..MaxTime             \* QDateTime::currentDateTime().toTime_t()

----------------------------------------------------------------------------
(* Connection identifier *)

\* a slip that stops counting at the largest int
fetchAndAddOrdered_saturating(c) == IF c = INT_MAX THEN INT_MAX ELSE c + 1

\* objectCounter.fetchAndAddOrdered(1): the new value of the 32-bit int
fetchAndAddOrdered(c) == IF c = INT_MAX THEN (-INT_MAX) - 1 ELSE c + 1

\* (quint64)b & 0xffffffff for an int b, as its two 16-bit halves <<high, low>>
Low32(b) ==
    IF b >= 0 THEN <<b \div 65536, b % 65536>>
    ELSE LET c == (b + INT_MAX) + 1      \* b + 2^31, in 0..2^31-1
         IN <<32768 + (c \div 65536), c % 65536>>

\* (h << 32) | (b & 0xffffffff), as <<upper 32 bits, lower 32 bits>>
Identifier(h, b) == <<h, Low32(b)>>

----------------------------------------------------------------------------
(* Initial state *)

NoOp == [op |-> "none", sock |-> 0, ret |-> 0, err |-> 0, io |-> FALSE, k |-> 0,
         polled |-> FALSE, calls |-> 0, writes |-> 0]

Idle == [pc |-> "idle", h |-> 0, b |-> 0]

NoTally == [calls |-> 0, writes |-> 0]

NoAppend == [pc |-> "idle", s |-> 0, id |-> 0, data |-> <<>>, snap |-> <<>>]

\* a process that has constructed no connection yet:
\* QAtomicInt TEpollSocket::objectCounter(1)
Fresh == [counter |-> 1, ids |-> {}]

\* a process met later in its life: after 2^31 - 2 constructions the counter
\* holds INT_MAX; after 2^32 - 2 it holds 0xffffffff, and the connection
\* constructed first, at clock reading 0, may still be there
Pasts ==
    {Fresh,
     [counter |-> INT_MAX, ids |-> {}],
     [counter |-> -1, ids |-> {Identifier(0, 1)}]}

InitFrom(p) ==
    /\ past = p
    /\ sendBufSize = 0
    /\ recvBufSize = 0
    /\ objectCounter = p.counter
    /\ socks = <<>>
    /\ enq = <<>>
    /\ wire = <<>>
    /\ tally = <<>>
    /\ accessLog = <<>>
    /\ deleted = <<>>
    /\ discoveries = 0
    /\ last = NoOp
    /\ thr = [t \in 1..NThreads |-> Idle]
    /\ made = <<>>
    /\ app = [w \in 1..NAppenders |-> NoAppend]

Init == InitFrom(Fresh)

\* the process at any of the points of its life listed in Pasts
InitWrap == \E p \in Pasts : InitFrom(p)

globals == <<sendBufSize, recvBufSize, discoveries>>
history == <<enq, wire, tally, accessLog, deleted>>
threads == <<thr, made, app, past>>

----------------------------------------------------------------------------
(* initBuffer, the constructor, create, accept *)

\* initBuffer(socketDescriptor); snd and rcv are what the two getsockopt
\* queries answer
initBuffer ==
    IF sendBufSize = 0
    THEN \E snd \in OsSockOpt, rcv \in OsSockOpt :
            /\ sendBufSize' = IF snd.res < 0 THEN BUF_SIZE ELSE snd.val
            /\ recvBufSize' = IF rcv.res < 0 THEN BUF_SIZE ELSE rcv.val
            /\ discoveries' = discoveries + 1
    ELSE UNCHANGED globals

\* TEpollSocket::TEpollSocket(socketDescriptor, address), run by one thread
\* without interruption; h is the clock reading
TEpollSocket(socketDescriptor, h) ==
    /\ Len(socks) < MaxSocks
    /\ socks' = Append(socks, [sd |-> socketDescriptor,
                               identifier |-> Identifier(h, objectCounter),
                               sendBuf |-> <<>>,
                               recvLen |-> 0,
                               closes |-> 0,
                               alive |-> TRUE])
    /\ objectCounter' = fetchAndAddOrdered(objectCounter)
    /\ enq' = Append(enq, <<>>)
    /\ wire' = Append(wire, <<>>)
    /\ tally' = Append(tally, NoTally)
    /\ UNCHANGED <<accessLog, deleted>>

ReturnNull(op, fd, err) ==
    /\ last' = [NoOp EXCEPT !.op = op, !.k = fd, !.err = err]
    /\ UNCHANGED <<globals, objectCounter, socks, history>>

createAs(op, socketDescriptor, err) ==
    IF socketDescriptor > 0
    THEN /\ \E h \in Times : TEpollSocket(socketDescriptor, h)
         /\ initBuffer
         /\ last' = [NoOp EXCEPT !.op = op, !.sock = Len(socks) + 1,
                                 !.ret = Len(socks) + 1, !.k = socketDescriptor]
    ELSE ReturnNull(op, socketDescriptor, err)

\* TEpollSocket::create(socketDescriptor, address)
create(socketDescriptor) ==
    /\ createAs("create", socketDescriptor, 0)
    /\ UNCHANGED threads

\* a slip that asks for the buffer sizes before looking at the accept result
accept_early(a) ==
    /\ UNCHANGED threads
    /\ IF a.fd < 0
       THEN /\ initBuffer
            /\ last' = [NoOp EXCEPT !.op = "accept", !.k = a.fd, !.err = a.err]
            /\ UNCHANGED <<objectCounter, socks, history>>
       ELSE createAs("accept", a.fd, a.err)

\* TEpollSocket::accept(listeningSocket); a is what tf_accept4 answers
accept(a) ==
    /\ UNCHANGED threads
    /\ IF a.fd < 0
       THEN ReturnNull("accept", a.fd, a.err)
       ELSE createAs("accept", a.fd, a.err)

----------------------------------------------------------------------------
(* recv *)

\* seekRecvBuffer(len) of the subclass: commit(bytes_written)
seekRecvBuffer(n, len) == n + len

\* a slip that never commits a read that filled the whole region
RecvLoop_full(st) ==
    LET RECURSIVE Go(_)
        Go(x) ==
            UNION {IF r.len > 0
                   THEN Go([x EXCEPT !.n = IF r.len < recvBufSize
                                              THEN seekRecvBuffer(x.n, r.len) ELSE x.n,
                                     !.err = r.err, !.k = @ + r.len])
                   ELSE {[x EXCEPT !.err = r.err]}
                   : r \in OsRecv(recvBufSize, st.room - x.k)}
    IN Go(st)

\* the for (;;) of recv(): every final state the OS can drive the loop to.
\* st.n: bytes committed to the receive buffer; st.k: bytes the OS delivered;
\* st.room: bytes the OS may still deliver in this behaviour
RECURSIVE RecvLoop(_)
RecvLoop(st) ==
    UNION {IF r.len > 0
           THEN RecvLoop([st EXCEPT !.n = seekRecvBuffer(st.n, r.len),
                                    !.err = r.err, !.k = @ + r.len])
           ELSE {[st EXCEPT !.err = r.err]}
           : r \in OsRecv(recvBufSize, st.room - st.k)}

\* a slip that takes the zero-length read for would-block
recvStatus_eof(err) == IF err \in {EAGAIN, 0} THEN 0 ELSE -1

\* the switch (err) of recv()
recvStatus(err) ==
    CASE err = EAGAIN -> 0
      [] err \in {0, ECONNRESET} -> -1
      [] OTHER -> -1

RECURSIVE SumRecv(_)
SumRecv(ss) == IF ss = <<>> THEN 0 ELSE Head(ss).recvLen + SumRecv(Tail(ss))

Received == SumRecv(socks)

\* TEpollSocket::recv()
recv(s) ==
    /\ \E st \in RecvLoop([n |-> socks[s].recvLen, err |-> 0, k |-> 0,
                            room |-> MaxRecv - Received]) :
         /\ socks' = [socks EXCEPT ![s].recvLen = st.n]
         /\ last' = [NoOp EXCEPT !.op = "recv", !.sock = s, !.ret = recvStatus(st.err),
                                 !.err = st.err, !.io = TRUE, !.k = st.k]
    /\ UNCHANGED <<globals, objectCounter, history, threads>>

----------------------------------------------------------------------------
(* send *)

\* a slip that overwrites the count instead of adding to it
addResponseBytes_set(buf, len) == setResponseBytes(buf, len)

\* logger.setResponseBytes(logger.responseBytes() + len)
addResponseBytes(buf, len) == setResponseBytes(buf, responseBytes(buf) + len)

\* the for (;;) of send() asking the head for windows of at most cap bytes:
\* every final state the OS can drive the loop to.  st.buf: the head buffer;
\* st.err, st.len: errno and result of the last ::send; st.out: the bytes the
\* OS accepted; st.writes: the writes that accepted bytes; st.io: ::send was called
RECURSIVE SendLoopWith(_, _)
SendLoopWith(st, cap) ==
    LET len == getData(st.buf, cap)
    IN IF len = 0
       THEN {[st EXCEPT !.len = 0]}
       ELSE UNION {IF r.len > 0
                   THEN SendLoopWith(
                            [buf |-> addResponseBytes(seekData(st.buf, r.len), r.len),
                             err |-> r.err, len |-> r.len,
                             out |-> st.out \o Window(st.buf, r.len),
                             writes |-> st.writes + 1, io |-> TRUE], cap)
                   ELSE {[st EXCEPT !.err = r.err, !.len = r.len, !.io = TRUE]}
                   : r \in OsSend(len)}

\* a slip that asks for BUF_SIZE bytes whatever size was discovered
SendLoop_default(st) == SendLoopWith(st, BUF_SIZE)

\* len = sendBufSize at the top of every iteration
SendLoop(st) == SendLoopWith(st, sendBufSize)

\* a slip that flags a send error for a connection reset only
sendStatus_resetOnly(err) ==
    CASE err \in {0, EAGAIN} -> 0
      [] err = ECONNRESET -> -1
      [] OTHER -> 0

\* the switch (err) of send(): the value returned
sendStatus(err) ==
    CASE err \in {0, EAGAIN} -> 0
      [] err = ECONNRESET -> -1
      [] OTHER -> -1

\* a slip that takes the newest entry
dequeue_last(q) == [item |-> q[Len(q)], rest |-> SubSeq(q, 1, Len(q) - 1)]

\* sendBuf.dequeue(): the entry taken and the queue left
dequeue(q) == [item |-> Head(q), rest |-> Tail(q)]

\* a slip that re-arms the socket although there is nothing to send
sendEmpty_rearm(s) ==
    /\ last' = [NoOp EXCEPT !.op = "send", !.sock = s, !.polled = TRUE]
    /\ UNCHANGED <<globals, objectCounter, socks, history, threads>>

\* send() on an empty queue: return 0
sendEmpty(s) ==
    /\ last' = [NoOp EXCEPT !.op = "send", !.sock = s]
    /\ UNCHANGED <<globals, objectCounter, socks, history, threads>>

\* send() on a queue that is not empty
sendHead(s) ==
    LET q == socks[s].sendBuf
        buf == Head(q)      \* sendBuf.first()
    IN \E st \in SendLoop([buf |-> buf, err |-> 0, len |-> 0, out |-> <<>>,
                           writes |-> 0, io |-> FALSE]) :
         LET ret == sendStatus(st.err)
             head == IF ret < 0 THEN setResponseBytes(st.buf, -1) ELSE st.buf
             q1 == <<head>> \o Tail(q)
             rearm == st.err # EAGAIN /\ q1 # <<>>
             retire == atEnd(head) \/ ret < 0
             dq == dequeue(q1)
             now == [calls |-> Min(tally[s].calls + 1, MaxLen),
                     writes |-> tally[s].writes + st.writes]
         IN /\ socks' = [socks EXCEPT ![s].sendBuf = IF retire THEN dq.rest ELSE q1]
            /\ accessLog' = IF retire
                            THEN Append(accessLog, [sock |-> s, id |-> head.id,
                                                    bytes |-> responseBytes(head),
                                                    failed |-> ret < 0])
                            ELSE accessLog
            /\ deleted' = IF retire THEN Append(deleted, <<s, dq.item.id>>) ELSE deleted
            /\ wire' = [wire EXCEPT ![s] = @ \o st.out]
            /\ tally' = [tally EXCEPT ![s] = IF retire THEN NoTally ELSE now]
            /\ last' = [NoOp EXCEPT !.op = "send", !.sock = s, !.ret = ret,
                                    !.err = st.err, !.io = st.io, !.k = Len(st.out),
                                    !.polled = rearm,
                                    !.calls = IF retire THEN now.calls ELSE 0,
                                    !.writes = IF retire THEN now.writes ELSE 0]
            /\ UNCHANGED <<globals, objectCounter, enq, threads>>

\* TEpollSocket::send()
send(s) ==
    IF socks[s].sendBuf = <<>> THEN sendEmpty(s) ELSE sendHead(s)

----------------------------------------------------------------------------
(* enqueueSendData *)

RECURSIVE SumLen(_)
SumLen(qs) == IF qs = <<>> THEN 0 ELSE Len(Head(qs)) + SumLen(Tail(qs))

\* a slip that puts the new buffer in front
push_front(s, data, bytes0) ==
    /\ SumLen(enq) < MaxEnq
    /\ socks' = [socks EXCEPT ![s].sendBuf =
                    <<NewSendBuffer(Len(enq[s]) + 1, data, bytes0)>> \o @]
    /\ enq' = [enq EXCEPT ![s] = Append(@, [data |-> data, bytes0 |-> bytes0])]
    /\ last' = [NoOp EXCEPT !.op = "enqueue", !.sock = s]
    /\ UNCHANGED <<globals, objectCounter, wire, tally, accessLog, deleted,
                   threads>>

\* sendBuf << buffer, for a buffer holding data whose logger counts bytes0
push_back(s, data, bytes0) ==
    /\ SumLen(enq) < MaxEnq
    /\ socks' = [socks EXCEPT ![s].sendBuf =
                    Append(@, NewSendBuffer(Len(enq[s]) + 1, data, bytes0))]
    /\ enq' = [enq EXCEPT ![s] = Append(@, [data |-> data, bytes0 |-> bytes0])]
    /\ last' = [NoOp EXCEPT !.op = "enqueue", !.sock = s]
    /\ UNCHANGED <<globals, objectCounter, wire, tally, accessLog, deleted,
                   threads>>

\* TEpollSocket::enqueueSendData(TSendBuffer *buffer)
enqueueSendData(s, data, bytes0) == push_back(s, data, bytes0)

\* TEpollSocket::enqueueSendData(const QByteArray &data): new TSendBuffer(data)
enqueueSendBytes(s, data) == push_back(s, data, 0)

----------------------------------------------------------------------------
(* close, setSocketDescpriter, the destructor *)

\* a slip that closes whatever the descriptor holds
closeSock_unguarded(sock) ==
    [sock EXCEPT !.sd = 0, !.closes = Min(@ + 1, MaxCloses)]

\* the body of close(): if (sd > 0) { TF_CLOSE(sd); sd = 0; }
closeSock(sock) ==
    IF sock.sd > 0
    THEN [sock EXCEPT !.sd = 0, !.closes = Min(@ + 1, MaxCloses)]
    ELSE sock

\* TEpollSocket::close(); last.io tells that TF_CLOSE was called
close(s) ==
    /\ socks' = [socks EXCEPT ![s] = closeSock(@)]
    /\ last' = [NoOp EXCEPT !.op = "close", !.sock = s,
                            !.io = closeSock(socks[s]).closes # socks[s].closes
                                   \/ closeSock(socks[s]).sd # socks[s].sd]
    /\ UNCHANGED <<globals, objectCounter, history, threads>>

\* TEpollSocket::setSocketDescpriter(socketDescriptor)
setSocketDescpriter(s, socketDescriptor) ==
    /\ socks' = [socks EXCEPT ![s].sd = socketDescriptor]
    /\ last' = [NoOp EXCEPT !.op = "setsd", !.sock = s, !.k = socketDescriptor]
    /\ UNCHANGED <<globals, objectCounter, history, threads>>

\* a slip that deletes the queued buffers newest first
deleteAll_reversed(s, q) == [i \in 1..Len(q) |-> <<s, q[Len(q) + 1 - i].id>>]

\* for (QListIterator it(sendBuf); it.hasNext(); ) delete it.next();
deleteAll(s, q) == [i \in 1..Len(q) |-> <<s, q[i].id>>]

\* TEpollSocket::~TEpollSocket(): close(), delete every queued buffer,
\* sendBuf.clear().  last.io tells that TF_CLOSE was called, last.k how many
\* buffers were deleted
Destructor(s) ==
    LET closed == closeSock(socks[s])
    IN /\ socks[s].alive
       /\ socks' = [socks EXCEPT ![s] = [closed EXCEPT !.sendBuf = <<>>,
                                                       !.alive = FALSE]]
       /\ deleted' = deleted \o deleteAll(s, closed.sendBuf)
       /\ tally' = [tally EXCEPT ![s] = NoTally]
       /\ last' = [NoOp EXCEPT !.op = "destroy", !.sock = s,
                               !.io = closed.closes # socks[s].closes
                                      \/ closed.sd # socks[s].sd,
                               !.k = Len(closed.sendBuf)]
       /\ UNCHANGED <<globals, objectCounter, enq, wire, accessLog, threads>>

----------------------------------------------------------------------------
(* The constructor run by several threads, statement by statement *)

Started == Len(made) + Cardinality({t \in DOMAIN thr : thr[t].pc # "idle"})

\* line 95: quint64 h = QDateTime::currentDateTime().toTime_t()
CtorReadTime(t, h) ==
    /\ thr[t].pc = "idle"
    /\ Started < MaxCtors
    /\ thr' = [thr EXCEPT ![t] = [pc |-> "timed", h |-> h, b |-> 0]]
    /\ UNCHANGED <<globals, objectCounter, socks, history, last, made, app, past>>

\* a slip that loads the counter and never advances it
CtorFetchAdd_load(t) ==
    /\ thr[t].pc = "timed"
    /\ thr' = [thr EXCEPT ![t] = [@ EXCEPT !.pc = "fetched", !.b = objectCounter]]
    /\ objectCounter' = objectCounter
    /\ UNCHANGED <<globals, socks, history, last, made, app, past>>

\* line 96: quint64 b = objectCounter.fetchAndAddOrdered(1)
CtorFetchAdd(t) ==
    /\ thr[t].pc = "timed"
    /\ thr' = [thr EXCEPT ![t] = [@ EXCEPT !.pc = "fetched", !.b = objectCounter]]
    /\ objectCounter' = fetchAndAddOrdered(objectCounter)
    /\ UNCHANGED <<globals, socks, history, last, made, app, past>>

\* line 97: identifier = (h << 32) | (b & 0xffffffff)
CtorAssign(t) ==
    /\ thr[t].pc = "fetched"
    /\ made' = Append(made, Identifier(thr[t].h, thr[t].b))
    /\ thr' = [thr EXCEPT ![t] = Idle]
    /\ UNCHANGED <<globals, objectCounter, socks, history, last, app, past>>

----------------------------------------------------------------------------
(* enqueueSendData called from execution contexts other than the reactor   *)
(* thread.  sendBuf << buffer is a plain list append: it reads the list,   *)
(* then writes the new entry and the new list bounds, and nothing in       *)
(* enqueueSendData or send() orders these accesses against the accesses of *)
(* another context.  The append is therefore two steps, and what its write *)
(* leaves when the list changed in between is one of the results of the    *)
(* race: the entry added to the list as it is now, or to the list as it    *)
(* was read (the writes of the other context are lost).                    *)

\* the lists the write of a racing append can leave
AppendResults(now, snap, buf) == {Append(now, buf), Append(snap, buf)}

\* sendBuf << new TSendBuffer(data), first half: the list is read
AppendLoad(w, s, data) ==
    /\ app[w].pc = "idle"
    /\ SumLen(enq) < MaxEnq
    /\ app' = [app EXCEPT ![w] = [pc |-> "loaded", s |-> s, id |-> Len(enq[s]) + 1,
                                  data |-> data, snap |-> socks[s].sendBuf]]
    /\ enq' = [enq EXCEPT ![s] = Append(@, [data |-> data, bytes0 |-> 0])]
    /\ last' = [NoOp EXCEPT !.op = "append", !.sock = s]
    /\ UNCHANGED <<globals, objectCounter, socks, wire, tally, accessLog, deleted,
                   thr, made, past>>

\* sendBuf << new TSendBuffer(data), second half: the entry is written
AppendStore(w) ==
    /\ app[w].pc = "loaded"
    /\ \E q \in AppendResults(socks[app[w].s].sendBuf, app[w].snap,
                              NewSendBuffer(app[w].id, app[w].data, 0)) :
          socks' = [socks EXCEPT ![app[w].s].sendBuf = q]
    /\ app' = [app EXCEPT ![w] = NoAppend]
    /\ last' = [NoOp EXCEPT !.op = "enqueue", !.sock = app[w].s]
    /\ UNCHANGED <<globals, objectCounter, history, thr, made, past>>

----------------------------------------------------------------------------
(* Specifications *)

LogStarts == 0..MaxLogStart

\* the reactor thread runs every operation to its end before the next:
\* connections are set up, buffers are enqueued and send() is called
Next ==
    \/ \E a \in OsAccept(Len(socks)) : accept(a)
    \/ \E d \in Descriptors(Len(socks)) : create(d)
    \/ \E s \in DOMAIN socks : send(s)
    \/ \E s \in DOMAIN socks, bytes0 \in LogStarts :
          \E data \in Payloads(Len(enq[s]) + 1) : enqueueSendData(s, data, bytes0)
    \/ \E s \in DOMAIN socks :
          \E data \in Payloads(Len(enq[s]) + 1) : enqueueSendBytes(s, data)

Spec == Init /\ [][Next]_vars

\* connections are set up and recv() is called
NextRecv ==
    \/ \E a \in OsAccept(Len(socks)) : accept(a)
    \/ \E d \in Descriptors(Len(socks)) : create(d)
    \/ \E s \in DOMAIN socks : recv(s)

SpecRecv == Init /\ [][NextRecv]_vars

\* constructors running in several threads at once
NextCtor ==
    \/ \E t \in DOMAIN thr, h \in Times : CtorReadTime(t, h)
    \/ \E t \in DOMAIN thr : CtorFetchAdd(t)
    \/ \E t \in DOMAIN thr : CtorAssign(t)

SpecCtor == Init /\ [][NextCtor]_vars

\* the sockets whose destructor has not run
Live == {s \in DOMAIN socks : socks[s].alive}

\* the whole life of the connections on the reactor thread: set up, enqueue,
\* send, close, descriptor hand-over and destruction
NextLife ==
    \/ \E d \in Descriptors(Len(socks)) : Len(socks) < MaxLifeSocks /\ create(d)
    \/ \E s \in Live : send(s)
    \/ \E s \in Live :
          \E data \in Payloads(Len(enq[s]) + 1) : enqueueSendBytes(s, data)
    \/ \E s \in Live : close(s)
    \/ \E s \in Live, d \in Descriptors(Len(socks)) : setSocketDescpriter(s, d)
    \/ \E s \in Live : Destructor(s)

SpecLife == Init /\ [][NextLife]_vars

\* connections constructed, by one thread or by several at once, and
\* destroyed, in a process met at any point of the life of its counter
NextWrap ==
    \/ \E d \in Descriptors(Len(socks)) : Len(socks) < MaxLifeSocks /\ create(d)
    \/ \E s \in Live : Destructor(s)
    \/ \E t \in DOMAIN thr, h \in Times : CtorReadTime(t, h)
    \/ \E t \in DOMAIN thr : CtorFetchAdd(t)
    \/ \E t \in DOMAIN thr : CtorAssign(t)

SpecWrap == InitWrap /\ [][NextWrap]_vars

\* a send() on socket s during which the OS accepted bytes of the head or
\* failed the write, or which retired the head
SendProgress(s) ==
    /\ s \in Live
    /\ socks[s].sendBuf # <<>>
    /\ send(s)
    /\ socks'[s].sendBuf # socks[s].sendBuf

\* the reactor calls send() after every writable notification and after
\* every re-arm it was asked for, and the OS does not answer would-block or
\* zero for ever: a send() that makes progress, being possible again and
\* again, eventually happens
Fairness == \A s \in 1..MaxLifeSocks : SF_vars(SendProgress(s))

SpecFair == SpecLife /\ Fairness

\* the reactor thread sets up connections and calls send() while other
\* execution contexts enqueue
NextRace ==
    \/ \E d \in Descriptors(Len(socks)) : Len(socks) < MaxLifeSocks /\ create(d)
    \/ \E s \in DOMAIN socks : send(s)
    \/ \E w \in DOMAIN app, s \in DOMAIN socks :
          \E data \in Payloads(Len(enq[s]) + 1) : AppendLoad(w, s, data)
    \/ \E w \in DOMAIN app : AppendStore(w)

SpecRace == Init /\ [][NextRace]_vars

----------------------------------------------------------------------------
(* Vocabulary of the properties *)

RECURSIVE ConcatData(_)
ConcatData(es) == IF es = <<>> THEN <<>> ELSE Head(es).data \o ConcatData(Tail(es))

\* the bytes of the queued buffers that were not yet accepted by the OS
RECURSIVE Unsent(_)
Unsent(q) ==
    IF q = <<>> THEN <<>>
    ELSE SubSeq(Head(q).data, Head(q).pos + 1, Len(Head(q).data)) \o Unsent(Tail(q))

NoSendError(s) ==
    \A i \in DOMAIN accessLog : accessLog[i].sock = s => ~accessLog[i].failed

CeilDiv(n, d) == (n + d - 1) \div d

\* the step just taken was a send() that retired its head at end-of-data
RetiredAtEnd == last.op = "send" /\ last.ret = 0 /\ last.calls > 0

LastLogged == accessLog[Len(accessLog)]
LastLoggedLen == Len(enq[LastLogged.sock][LastLogged.id].data)

----------------------------------------------------------------------------
(* C1: as long as no send error has occurred on a socket, the bytes the OS  *)
(* accepted followed by the bytes still unsent in its queue are exactly the *)
(* enqueued buffers' contents in enqueue order: the wire carries a prefix   *)
(* of that concatenation, no byte twice, none skipped, none out of order.   *)
C1_FifoByteExact ==
    \A s \in DOMAIN socks :
        NoSendError(s) => wire[s] \o Unsent(socks[s].sendBuf) = ConcatData(enq[s])

\* two buffers were enqueued, the first is fully on the wire, the second is
\* partly sent and the last send() stopped on would-block
C1_Witness ==
    \E s \in DOMAIN socks :
        /\ Len(enq[s]) = 2
        /\ NoSendError(s)
        /\ Len(socks[s].sendBuf) = 1
        /\ Head(socks[s].sendBuf).id = 2
        /\ Head(socks[s].sendBuf).pos = 1
        /\ Len(wire[s]) = 3
        /\ last.op = "send" /\ last.sock = s /\ last.err = EAGAIN

(* C2: a send() that ends with a send error removes and deletes the head,  *)
(* writes its log record with the count -1, and leaves every later entry   *)
(* in the queue, in order and with no byte consumed.                       *)
C2_ErrorRetiresHeadOnly ==
    [][(last'.op = "send" /\ last'.ret < 0) =>
         LET s == last'.sock
             q == socks[s].sendBuf
         IN /\ q # <<>>
            /\ socks'[s].sendBuf = Tail(q)
            /\ \A i \in 2..Len(q) : q[i].pos = 0
            /\ deleted' = Append(deleted, <<s, Head(q).id>>)
            /\ accessLog' = Append(accessLog, [sock |-> s, id |-> Head(q).id,
                                               bytes |-> -1, failed |-> TRUE])]_vars

\* a head failed after some of its bytes were sent, and a later entry is queued
C2_Witness ==
    /\ last.op = "send" /\ last.ret = -1
    /\ socks[last.sock].sendBuf # <<>>
    /\ wire[last.sock] # <<>>
    /\ accessLog = <<[sock |-> last.sock, id |-> 1, bytes |-> -1, failed |-> TRUE]>>

(* C3: send() on an empty queue calls no OS write, returns 0, requests no  *)
(* re-arm and changes neither the sockets, the globals nor any log.        *)
C3_EmptySendNoEffect ==
    [][(last'.op = "send" /\ socks[last'.sock].sendBuf = <<>>) =>
         /\ last'.ret = 0
         /\ ~last'.io
         /\ ~last'.polled
         /\ UNCHANGED <<socks, globals, objectCounter, history>>]_vars

\* send() ran on a queue that earlier sends had drained
C3_Witness ==
    /\ last.op = "send" /\ ~last.io /\ ~last.polled /\ last.ret = 0
    /\ socks[last.sock].sendBuf = <<>>
    /\ accessLog # <<>>

(* C4: a recv() whose reads end in would-block commits exactly the bytes   *)
(* the OS delivered in its positive reads and returns 0.                   *)
C4_RecvCommitsAll ==
    [][(last'.op = "recv" /\ last'.err = EAGAIN) =>
         /\ socks'[last'.sock].recvLen = socks[last'.sock].recvLen + last'.k
         /\ last'.ret = 0]_vars

\* two bytes arrived in two reads of one byte each, then would-block
C4_Witness ==
    /\ last.op = "recv" /\ last.err = EAGAIN /\ last.k = 2
    /\ recvBufSize = 1
    /\ socks[last.sock].recvLen = 2

(* C5 as stated: the result of a recv() that ended in a zero-length read   *)
(* or a connection reset differs from the result of a recv() that ended in *)
(* any other OS error (and from the result for would-block).               *)
C5_ClosedDistinctFromError ==
    [][(/\ last.op = "recv" /\ last.err \in {0, ECONNRESET}
        /\ last'.op = "recv" /\ last'.err \notin {0, ECONNRESET})
       => last'.ret # last.ret]_vars

(* C5, amended: recv() returns 0 exactly when its terminating read was     *)
(* would-block and -1 for a zero-length read, a connection reset and any   *)
(* other OS error alike.                                                   *)
C5_TwoValued ==
    last.op = "recv" => /\ last.ret \in {0, -1}
                        /\ last.ret = 0 <=> last.err = EAGAIN

\* the first read was a zero-length read
C5_Witness ==
    last.op = "recv" /\ last.err = 0 /\ last.k = 0 /\ last.ret = -1

(* C6 as stated: a buffer of N bytes retired at end-of-data has seen at    *)
(* least ceil(N/S) send() calls, S being the discovered send-buffer size.  *)
C6_CallsAtLeast ==
    (RetiredAtEnd /\ LastLoggedLen > 0) =>
        last.calls >= CeilDiv(LastLoggedLen, sendBufSize)

(* C6, amended: a buffer of N bytes retired at end-of-data has seen at     *)
(* least one send() call and at least ceil(N/S) OS writes that accepted    *)
(* bytes of it; one send() call may make all of them.                      *)
C6_WritesAtLeast ==
    RetiredAtEnd =>
        /\ last.calls >= 1
        /\ LastLoggedLen > 0 =>
              sendBufSize > 0 /\ last.writes >= CeilDiv(LastLoggedLen, sendBufSize)

\* a buffer of 2 bytes went out with S = 1 in one send() call making 2 writes
C6_Witness ==
    /\ RetiredAtEnd
    /\ LastLoggedLen = 2 /\ sendBufSize = 1
    /\ last.calls = 1 /\ last.writes = 2

(* C7: the response-byte count of every queued buffer is its initial count *)
(* plus the bytes of it the OS accepted so far, and the record written for *)
(* a buffer retired at end-of-data carries the initial count plus its      *)
(* length: exactly N for a count that started at 0.                        *)
C7_LogCountsBytes ==
    /\ \A s \in DOMAIN socks : \A i \in DOMAIN socks[s].sendBuf :
          LET b == socks[s].sendBuf[i]
          IN responseBytes(b) = enq[s][b.id].bytes0 + b.pos
    /\ \A i \in DOMAIN accessLog :
          LET e == accessLog[i]
          IN ~e.failed => e.bytes = enq[e.sock][e.id].bytes0 + Len(enq[e.sock][e.id].data)

\* a buffer of 2 bytes whose count started at 0 went out in two send() calls
\* of one write each and was logged with 2
C7_Witness ==
    /\ RetiredAtEnd
    /\ last.calls = 2 /\ last.writes = 2
    /\ LastLoggedLen = 2 /\ LastLogged.bytes = 2
    /\ enq[LastLogged.sock][LastLogged.id].bytes0 = 0

\* the threads that hold a counter value and have not yet stored the identifier
InFlight == {t \in DOMAIN thr : thr[t].pc = "fetched"}

Obtaining(t) == Identifier(thr[t].h, thr[t].b)

(* C8: the identifiers obtained by constructors running in several threads *)
(* are pairwise distinct, those of constructors still running included.    *)
C8_IdentifiersDistinct ==
    /\ \A i, j \in DOMAIN made : i # j => made[i] # made[j]
    /\ \A t \in InFlight : \A i \in DOMAIN made : made[i] # Obtaining(t)
    /\ \A t, u \in InFlight : t # u => Obtaining(t) # Obtaining(u)

\* a thread that fetched the counter first is overtaken by one that fetched
\* it later and read the same clock value
C8_Witness ==
    /\ Len(made) = 1
    /\ \E t \in DOMAIN thr :
          /\ thr[t].pc = "fetched"
          /\ made[1] = Identifier(thr[t].h, thr[t].b + 1)

(* C9 as stated: the getsockopt queries of initBuffer are issued at most   *)
(* once per process.                                                       *)
C9_DiscoveryAtMostOnce == discoveries <= 1

(* C10: an accept() whose tf_accept4 fails returns NULL, constructs no     *)
(* socket, leaves the object counter and the buffer sizes alone, issues no *)
(* query and requests no re-arm.                                           *)
C10_FailedAcceptNoEffect ==
    [][(last'.op = "accept" /\ last'.k < 0) =>
         /\ last'.ret = 0
         /\ ~last'.polled
         /\ UNCHANGED <<socks, objectCounter, globals, history>>]_vars

\* accept() found no pending connection before any socket was set up
C10_Witness ==
    /\ last.op = "accept" /\ last.k = -1 /\ last.err = EAGAIN /\ last.ret = 0
    /\ socks = <<>> /\ discoveries = 0

(* C11: a close() on a descriptor that is open (> 0) issues one OS close   *)
(* and leaves the descriptor at 0; a close() on a descriptor that is not   *)
(* open issues no OS close and changes nothing; no close() changes the     *)
(* send queue, a queued buffer, another socket or any log.                 *)
C11_CloseIdempotent ==
    [][last'.op = "close" =>
         LET s == last'.sock
         IN /\ socks[s].sd > 0 =>
                  /\ last'.io
                  /\ socks'[s] = [socks[s] EXCEPT !.sd = 0,
                                                  !.closes = Min(@ + 1, MaxCloses)]
            /\ socks[s].sd <= 0 => ~last'.io /\ socks'[s] = socks[s]
            /\ socks'[s].sendBuf = socks[s].sendBuf
            /\ \A o \in DOMAIN socks : o # s => socks'[o] = socks[o]
            /\ UNCHANGED <<globals, objectCounter, history>>]_vars

\* a second close() ran on a socket that holds a partly sent buffer: the
\* descriptor was closed once and the buffer is still queued
C11_Witness ==
    /\ last.op = "close" /\ ~last.io
    /\ socks[last.sock].sd = 0 /\ socks[last.sock].closes = 1
    /\ socks[last.sock].sendBuf # <<>>
    /\ Head(socks[last.sock].sendBuf).pos = 1

(* C12 as stated: a socket whose descriptor close() has closed holds the   *)
(* sentinel 0 in every later state, whatever operation ran since, and its  *)
(* descriptor was closed by the OS exactly once.                           *)
C12_ClosedStaysClosed ==
    \A s \in DOMAIN socks :
        socks[s].closes >= 1 => socks[s].sd = 0 /\ socks[s].closes = 1

\* how many times buffer k of socket s was deleted, and how many times it is
\* in the queue of s
TimesDeleted(s, k) == Cardinality({i \in DOMAIN deleted : deleted[i] = <<s, k>>})
TimesQueued(s, k) ==
    Cardinality({i \in DOMAIN socks[s].sendBuf : socks[s].sendBuf[i].id = k})

\* every buffer enqueued on s is either queued once or deleted once, and none
\* is queued once the destructor has run
OwnedOrDisposed(s) ==
    /\ \A k \in DOMAIN enq[s] : TimesDeleted(s, k) + TimesQueued(s, k) = 1
    /\ ~socks[s].alive => socks[s].sendBuf = <<>>

(* C13: the destructor closes the descriptor if it is open, deletes every  *)
(* buffer still queued once and in queue order, leaves the queue empty and *)
(* writes nothing to the OS; and in every state every buffer enqueued on a *)
(* socket is either still queued or was deleted exactly once, none being   *)
(* queued after the destructor.                                            *)
C13_DestructorDisposesAll ==
    [][/\ \A s \in DOMAIN socks' : OwnedOrDisposed(s)'
       /\ last'.op = "destroy" =>
            LET s == last'.sock
                q == socks[s].sendBuf
            IN /\ last'.io <=> socks[s].sd > 0
               /\ socks[s].sd > 0 => socks'[s].sd = 0
               /\ Len(deleted') = Len(deleted) + Len(q)
               /\ \A i \in DOMAIN deleted : deleted'[i] = deleted[i]
               /\ \A i \in DOMAIN q : deleted'[Len(deleted) + i] = <<s, q[i].id>>
               /\ last'.k = Len(q)
               /\ socks'[s].sendBuf = <<>>
               /\ ~socks'[s].alive
               /\ wire' = wire]_vars

\* a socket was destroyed with its descriptor open and two buffers queued,
\* the first of them partly sent
C13_Witness ==
    /\ last.op = "destroy" /\ last.io /\ last.k = 2
    /\ ~socks[last.sock].alive
    /\ wire[last.sock] # <<>>
    /\ deleted = <<<<last.sock, 1>>, <<last.sock, 2>>>>

\* the access-log record of buffer k of socket s was written
Logged(s, k) == \E i \in DOMAIN accessLog : accessLog[i].sock = s /\ accessLog[i].id = k

(* C14 as stated: once a socket is destroyed, the access-log record of     *)
(* every buffer that was enqueued on it has been written, those that were  *)
(* still queued when the destructor ran included.                          *)
C14_LogWrittenOnTeardown ==
    \A s \in DOMAIN socks :
        ~socks[s].alive => \A k \in DOMAIN enq[s] : Logged(s, k)

\* an append of buffer k to the queue of s has read the list and not yet
\* written its entry
Pending(s, k) ==
    \E w \in DOMAIN app : app[w].pc = "loaded" /\ app[w].s = s /\ app[w].id = k

(* C15 as stated: whatever the interleaving of the steps of an append made *)
(* by another execution context with send() and with other appends, every  *)
(* buffer handed to enqueue is about to be written to the queue, is in the *)
(* queue once, or was deleted once: none is lost, none is there twice, and *)
(* no deleted buffer is in the queue.                                      *)
C15_ConcurrentEnqueueSafe ==
    \A s \in DOMAIN socks : \A k \in DOMAIN enq[s] :
        TimesDeleted(s, k) + TimesQueued(s, k) + (IF Pending(s, k) THEN 1 ELSE 0) = 1

(* C16 as stated: a send() requests the re-arm exactly when its last write *)
(* did not end in would-block and the queue is not empty once it is done   *)
(* with the head: never after would-block, and never when it retired the   *)
(* only buffer of the queue.                                               *)
C16_RearmIffMoreToSend ==
    last.op = "send" =>
        (last.polled <=> (last.err # EAGAIN /\ socks[last.sock].sendBuf # <<>>))

\* the access-log records written for buffer k of socket s
TimesLogged(s, k) ==
    Cardinality({i \in DOMAIN accessLog : accessLog[i].sock = s /\ accessLog[i].id = k})

(* C17: a send() on a queue that is not empty removes the head exactly     *)
(* when the head is at end-of-data after the writes or the last write      *)
(* failed with an error other than would-block; it then writes the head's  *)
(* record and deletes the head, and removes nothing else.  Otherwise the   *)
(* head stays at the front, advanced by the bytes the OS accepted, and no  *)
(* record is written.  In every state a buffer has at most one record, and *)
(* a buffer with a record is deleted and no longer queued.                 *)
C17_RetireIffEndOrError ==
    [][(last'.op = "send" /\ socks[last'.sock].sendBuf # <<>>) =>
         LET s == last'.sock
             q == socks[s].sendBuf
             after == socks'[s].sendBuf
             failed == last'.err \notin {0, EAGAIN}
             pos == Head(q).pos + last'.k
             retire == pos >= Len(Head(q).data) \/ failed
         IN /\ last'.ret < 0 <=> failed
            /\ retire =>
                  /\ after = Tail(q)
                  /\ Len(accessLog') = Len(accessLog) + 1
                  /\ accessLog'[Len(accessLog')].sock = s
                  /\ accessLog'[Len(accessLog')].id = Head(q).id
                  /\ accessLog'[Len(accessLog')].failed = failed
                  /\ deleted' = Append(deleted, <<s, Head(q).id>>)
            /\ ~retire =>
                  /\ after # <<>>
                  /\ Head(after).id = Head(q).id
                  /\ Head(after).pos = pos
                  /\ Tail(after) = Tail(q)
                  /\ accessLog' = accessLog
                  /\ deleted' = deleted
            /\ \A o \in DOMAIN socks' : \A k \in DOMAIN enq'[o] :
                  /\ TimesLogged(o, k)' <= 1
                  /\ TimesLogged(o, k)' = 1 =>
                        TimesDeleted(o, k)' = 1 /\ TimesQueued(o, k)' = 0]_vars

\* the first buffer of a socket failed and was retired; the second was then
\* stopped by would-block after one of its two bytes and is still the head
C17_Witness ==
    /\ last.op = "send" /\ last.err = EAGAIN /\ last.k = 1 /\ last.ret = 0
    /\ accessLog = <<[sock |-> last.sock, id |-> 1, bytes |-> -1, failed |-> TRUE]>>
    /\ Len(socks[last.sock].sendBuf) = 1
    /\ Head(socks[last.sock].sendBuf).id = 2
    /\ Head(socks[last.sock].sendBuf).pos = 1
    /\ Len(Head(socks[last.sock].sendBuf).data) = 2

\* every buffer queued behind the head of s is as it was enqueued
BehindHeadUntouched(s) ==
    \A i \in 2..Len(socks[s].sendBuf) :
        LET b == socks[s].sendBuf[i]
        IN b.pos = 0 /\ responseBytes(b) = enq[s][b.id].bytes0

(* C18: in every state every buffer queued behind the head has its read    *)
(* position at 0 and its response-byte count at its initial value; and a   *)
(* send() puts on the wire bytes of the head only, taken from the head's   *)
(* read position, and leaves the buffers behind the head as they were,     *)
(* also when it retires the head.                                          *)
C18_OnlyHeadDrained ==
    [][/\ \A s \in DOMAIN socks' : BehindHeadUntouched(s)'
       /\ (last'.op = "send" /\ socks[last'.sock].sendBuf # <<>>) =>
            LET s == last'.sock
                q == socks[s].sendBuf
                after == socks'[s].sendBuf
            IN /\ after = Tail(q) \/ (after # <<>> /\ Tail(after) = Tail(q))
               /\ last'.k <= Len(Head(q).data) - Head(q).pos
               /\ wire'[s] = wire[s] \o SubSeq(Head(q).data, Head(q).pos + 1,
                                                Head(q).pos + last'.k)]_vars

\* a send() wrote both bytes of the head and retired it at end-of-data while
\* a second buffer of two bytes was queued behind it, and left that one whole
C18_Witness ==
    /\ RetiredAtEnd /\ last.k = 2
    /\ Len(wire[last.sock]) = 2
    /\ Len(socks[last.sock].sendBuf) = 1
    /\ Head(socks[last.sock].sendBuf).id = 2
    /\ Head(socks[last.sock].sendBuf).pos = 0
    /\ Len(Head(socks[last.sock].sendBuf).data) = 2

(* C19 as stated: with a reactor that keeps calling send() and an OS that  *)
(* eventually accepts bytes or reports an error, a queue that holds a      *)
(* buffer eventually becomes empty: every enqueued buffer is eventually    *)
(* retired, also when the head yields an empty read window.                *)
C19_QueueEventuallyDrained ==
    \A s \in 1..MaxLifeSocks :
        (s \in DOMAIN socks /\ socks[s].sendBuf # <<>>)
            ~> (s \in DOMAIN socks /\ socks[s].sendBuf = <<>>)

\* a 32-bit value given as its halves <<high, low>>, plus n, modulo 2^32
Add32(v, n) == <<(v[1] + ((v[2] + n) \div 65536)) % 65536, (v[2] + n) % 65536>>

\* the constructions that have read the counter since the behaviour started
Fetched == Len(made) + Cardinality(InFlight) + Len(socks)

\* the identifiers stored since the behaviour started
Stored == made \o [i \in 1..Len(socks) |-> socks[i].identifier]

\* the identifiers obtained since the behaviour started are pairwise distinct
RecentDistinct ==
    /\ \A i, j \in DOMAIN Stored : i # j => Stored[i] # Stored[j]
    /\ \A t \in InFlight : \A i \in DOMAIN Stored : Stored[i] # Obtaining(t)
    /\ \A t, u \in InFlight : t # u => Obtaining(t) # Obtaining(u)

(* C20 as stated: the identifiers of any two connections constructed in    *)
(* the process are distinct, those constructed before the low 32 bits of   *)
(* the counter wrapped around and those constructed after it included.     *)
C20_IdentifiersNeverRepeat ==
    /\ RecentDistinct
    /\ \A i \in DOMAIN Stored : Stored[i] \notin past.ids
    /\ \A t \in InFlight : Obtaining(t) \notin past.ids

(* C20, amended: the low 32 bits of the counter are those of its value     *)
(* when the behaviour started plus the number of constructions since,      *)
(* modulo 2^32 (from 1 in a fresh process), so every construction advances *)
(* it by one and nothing else does; every identifier is a clock reading    *)
(* over the low 32 bits of a value the counter had; a stored identifier    *)
(* never changes; and the identifiers of connections constructed fewer     *)
(* than 2^32 constructions apart are pairwise distinct.                    *)
C20_IdentifierFromCounter ==
    [][/\ Low32(objectCounter') = Add32(Low32(past'.counter), Fetched')
       /\ \A i \in DOMAIN Stored' :
             \E h \in Times, k \in 0..(Fetched' - 1) :
                Stored'[i] = <<h, Add32(Low32(past'.counter), k)>>
       /\ \A s \in DOMAIN socks : socks'[s].identifier = socks[s].identifier
       /\ \A i \in DOMAIN made : made'[i] = made[i]
       /\ Len(socks') > Len(socks) =>
             \E h \in Times : socks'[Len(socks')].identifier = Identifier(h, objectCounter)
       /\ RecentDistinct']_vars

\* the counter went from 0xffffffff to 0 and on to 1: the three constructions
\* since got the low 32 bits 0xffffffff, 0 and 1, one of them by create()
C20_Witness ==
    /\ past.counter = -1
    /\ objectCounter = 2
    /\ Len(socks) = 1 /\ Len(made) = 2
    /\ \E i \in DOMAIN Stored : Stored[i] = <<0, <<65535, 65535>>>>
    /\ \E i \in DOMAIN Stored : Stored[i] = <<0, <<0, 0>>>>
    /\ \E i \in DOMAIN Stored : Stored[i] = <<0, <<0, 1>>>>
====
